---- MODULE Spec2Model ----
(***************************************************************************)
(* A model of the feistel package: a keyed Feistel network over the two    *)
(* radices chosen by findFactors, with cycle walking and epochs            *)
(* (src/feistel.go), and of the bit-mask variant with its round counter    *)
(* (src/unnamed/part_001).                                                 *)
(*                                                                         *)
(* uint64 is scaled to a word of 2*HalfBits bits: every uint64 operation   *)
(* of the source is done modulo Word, and the constant 1<<32 of the source *)
(* becomes 1<<HalfBits.                                                    *)
(***************************************************************************)
EXTENDS Integers, Naturals, Sequences, FiniteSets, TLC

NetIds == {1, 2}

VARIABLES
    network,  \* network[id]: the *FeistelNetwork returned by NewNetwork, or Nil
    newErr,   \* newErr[id]: the error returned by NewNetwork
    args,     \* args[id]: the arguments NewNetwork was called with, or Nil
    call      \* call[id]: the call of Map or InvertMap on network[id]: its
              \* position pc ("new": no network yet, "failed", "idle", "loop":
              \* inside encode's for, "done": returned), encode's arguments and
              \* locals (index, invert, a, b, epochStart, epochHash), passes, the
              \* iterations of encode's outer loop the call has run, and the
              \* returned result and err

lib == <<network, newErr, args, call>>

\* A caller that sweeps a range of indices over network 1, as runTest does:
\* it maps each index and then runs the opposite direction on the value mapped.
VARIABLES
    cursor,       \* runTest's i: the next index of the sweep
    firstInvert,  \* the sweep calls InvertMap first and Map second
    stage,        \* "first": the call on cursor, "second": the call on its result
    forwardMap,   \* forwardMap[i + 1]: the value the first call returned for i
    firstPasses   \* passes of the first call on cursor, once it has returned

sweep == <<cursor, firstInvert, stage, forwardMap, firstPasses>>

\* The bit-mask variant (src/unnamed/part_001): one network shared by the
\* callers of Callers.
VARIABLES
    bmNetwork,  \* the *FeistelNetwork of the variant, roundCount included
    bmErr,      \* the error returned by its NewNetwork
    bmArgs,     \* the arguments and options its NewNetwork was called with
    bmCall      \* bmCall[p]: caller p's call of Map or InvertMap: its position
                \* pc ("idle", "loop": before the round of an iteration, "count":
                \* before the store of n.roundCount++, "done"), encode's
                \* arguments and locals, loaded (the value n.roundCount++ has
                \* read) and the returned result and err

bitmask == <<bmNetwork, bmErr, bmArgs, bmCall>>

Callers == {1, 2}

\* Half of the width of the machine word (32 in the source).
HalfBits == 2

\* Largest round count tried at construction.
MaxRounds == 3

\* Largest user seed tried at construction.
MaxSeed == 1

\* Largest value of n.roundCount the callers of the bit-mask variant reach.
MaxRoundCount == 4

\* Largest index the two callers of the shared bit-mask network pass.
MaxSharedIndex == 3

WordBits == 2 * HalfBits

Word == 2 ^ WordBits

UInt == 0 .. (Word - 1)

\* ^uint64(0)
MaxUInt == Word - 1

Nil == "nil"

\* The nil *FeistelNetwork: no network. A constructed network differs from it
\* in leftRadix and rightRadix, which findFactors never returns as zero.
NilNetwork ==
    [ maxValue |-> 0, rounds |-> 0, epochs |-> FALSE, seeds |-> <<>>,
      leftRadix |-> 0, rightRadix |-> 0 ]

ErrIndexGreatThanMaxValue == "feistel: index cannot be greater than max value"

ErrRoundsMustBeSet == "feistel: rounds must be a non zero value"

ErrRoundsAndAverageRoundsSet ==
    "feistel: you cannot set both rounds and minimum average rounds"

----------------------------------------------------------------------------
\* uint64 arithmetic

RECURSIVE BitXor(_, _, _)
BitXor(x, y, n) ==
    IF n = 0 THEN 0
    ELSE ((x + y) % 2) + 2 * BitXor(x \div 2, y \div 2, n - 1)

\* The table of x ^ y over the word.
XorTable == [x \in UInt |-> [y \in UInt |-> BitXor(x, y, WordBits)]]

\* x ^ y
Xor(x, y) == XorTable[x][y]

\* x >> k
Shr(x, k) == x \div (2 ^ k)

\* x << k
Shl(x, k) == (x * (2 ^ k)) % Word

RECURSIVE BitOr(_, _, _)
BitOr(x, y, n) ==
    IF n = 0 THEN 0
    ELSE (IF x % 2 = 1 \/ y % 2 = 1 THEN 1 ELSE 0)
         + 2 * BitOr(x \div 2, y \div 2, n - 1)

\* The table of x | y over the word.
OrTable == [x \in UInt |-> [y \in UInt |-> BitOr(x, y, WordBits)]]

\* x | y
Or(x, y) == OrTable[x][y]

RECURSIVE BitAnd(_, _, _)
BitAnd(x, y, n) ==
    IF n = 0 THEN 0
    ELSE (IF x % 2 = 1 /\ y % 2 = 1 THEN 1 ELSE 0)
         + 2 * BitAnd(x \div 2, y \div 2, n - 1)

\* The table of x & y over the word.
AndTable == [x \in UInt |-> [y \in UInt |-> BitAnd(x, y, WordBits)]]

\* x & y
And(x, y) == AndTable[x][y]

\* bits.Len64(x): the number of bits needed to represent x.
RECURSIVE Len64(_)
Len64(x) == IF x = 0 THEN 0 ELSE 1 + Len64(x \div 2)

\* x + y, x - y and x * y of uint64: they wrap around.
Add(x, y) == (x + y) % Word

Sub(x, y) == (x + Word - y) % Word

Mul(x, y) == (x * y) % Word

\* The constants of splitmix64. Arithmetic is modulo Word, so only the low
\* bits of each constant take part: these are the low 16 bits of
\* 0x9e3779b97f4a7c15, 0xbf58476d1ce4e5b9 and 0x94d049bb133111eb.
Gamma == 31765

MulA == 58809

MulB == 4587

\* The shifts 30, 27 and 31 of a 64-bit word, scaled to the word.
ShiftA == (30 * WordBits) \div 64

ShiftB == (27 * WordBits) \div 64

ShiftC == (31 * WordBits) \div 64

splitmix64(x) ==
    LET x1 == Add(x, Gamma)
        x2 == Xor(x1, Shr(x1, ShiftA))
        x3 == Mul(x2, MulA)
        x4 == Xor(x3, Shr(x3, ShiftB))
        x5 == Mul(x4, MulB)
    IN  Xor(x5, Shr(x5, ShiftC))

\* The table of splitmix64 over the word.
Hash == [x \in UInt |-> splitmix64(x)]

----------------------------------------------------------------------------
\* Domain splitter

\* uint64(math.Sqrt(float64(n)))
FloatSqrt(n) == CHOOSE x \in 0 .. n : x * x <= n /\ (x + 1) * (x + 1) > n

RECURSIVE SqrtDown(_, _)
SqrtDown(x, n) ==
    IF x > 0 /\ x - 1 > n \div x THEN SqrtDown(x - 1, n) ELSE x

RECURSIVE SqrtUp(_, _)
SqrtUp(x, n) ==
    IF x < n \div x THEN SqrtUp(Add(x, 1), n) ELSE x

uint64CeilSqrt(n) ==
    IF n < 2 THEN n
    ELSE SqrtUp(SqrtDown(FloatSqrt(n), n), n)

\* uint64Sqrt of the older variant (src/unnamed/part_000): the square root
\* rounded down.
RECURSIVE SqrtFloorDown(_, _)
SqrtFloorDown(x, n) ==
    IF x > 0 /\ x > n \div x THEN SqrtFloorDown(x - 1, n) ELSE x

RECURSIVE SqrtFloorUp(_, _)
SqrtFloorUp(x, n) ==
    IF Add(x, 1) <= n \div Add(x, 1) THEN SqrtFloorUp(Add(x, 1), n) ELSE x

uint64Sqrt(n) ==
    IF n < 2 THEN n
    ELSE SqrtFloorUp(SqrtFloorDown(FloatSqrt(n), n), n)

\* FactorScan with the comparison of the excess turned around: it keeps the
\* candidate whose excess is larger.
RECURSIVE FactorScanKeepsWorse(_, _, _)
FactorScanKeepsWorse(value, current, best) ==
    IF ~(Mul(current, 2) > value \div current /\ current > 1)
    THEN <<best[1], best[2]>>
    ELSE IF value % current = 0
         THEN <<current, value \div current>>
         ELSE LET other == Add(value \div current, 1)
                  diff  == Sub(Mul(other, current), value)
              IN  IF best[1] = 0 \/ best[3] < diff
                  THEN FactorScanKeepsWorse(value, current - 1, <<current, other, diff>>)
                  ELSE FactorScanKeepsWorse(value, current - 1, best)

\* The scan of findFactors from current downward; best is
\* <<bestValue, bestOther, exceeds>>.
RECURSIVE FactorScan(_, _, _)
FactorScan(value, current, best) ==
    IF ~(Mul(current, 2) > value \div current /\ current > 1)
    THEN <<best[1], best[2]>>
    ELSE IF value % current = 0
         THEN <<current, value \div current>>
         ELSE LET other == Add(value \div current, 1)
                  diff  == Sub(Mul(other, current), value)
              IN  IF best[1] = 0 \/ best[3] > diff
                  THEN FactorScan(value, current - 1, <<current, other, diff>>)
                  ELSE FactorScan(value, current - 1, best)

\* findFactors returning its two results in the opposite order.
findFactorsSwapped(maxValue) ==
    IF maxValue < 3 THEN <<2, 2>>
    ELSE IF maxValue = MaxUInt THEN <<2 ^ HalfBits, 2 ^ HalfBits>>
    ELSE LET value == maxValue + 1
             f     == FactorScan(value, uint64CeilSqrt(value), <<0, 0, 0>>)
         IN  <<f[2], f[1]>>

\* findFactors starting its scan at the square root rounded down, where the
\* scan of a domain of 8 values runs no iteration.
findFactorsFromFloor(maxValue) ==
    IF maxValue < 3 THEN <<2, 2>>
    ELSE IF maxValue = MaxUInt THEN <<2 ^ HalfBits, 2 ^ HalfBits>>
    ELSE LET value == maxValue + 1
         IN  FactorScan(value, uint64Sqrt(value), <<0, 0, 0>>)

findFactors(maxValue) ==
    IF maxValue < 3 THEN <<2, 2>>
    ELSE IF maxValue = MaxUInt THEN <<2 ^ HalfBits, 2 ^ HalfBits>>
    ELSE LET value == maxValue + 1
         IN  FactorScan(value, uint64CeilSqrt(value), <<0, 0, 0>>)

\* The scan of findFactors of the older variant (src/unnamed/part_000): the
\* distance between the two radices is added to the excess.
RECURSIVE FactorScanOlder(_, _, _)
FactorScanOlder(value, current, best) ==
    IF ~(Mul(current, 2) > value \div current /\ current > 1)
    THEN <<best[1], best[2]>>
    ELSE IF value % current = 0
         THEN <<current, value \div current>>
         ELSE LET other == Add(value \div current, 1)
                  diff  == Sub(Mul(other, current), value)
                  dist  == IF other > current
                           THEN Add(diff, Sub(other, current))
                           ELSE Add(diff, Sub(current, other))
              IN  IF best[1] = 0 \/ best[3] > dist
                  THEN FactorScanOlder(value, current - 1, <<current, other, dist>>)
                  ELSE FactorScanOlder(value, current - 1, best)

\* findFactors of the older variant, which starts at uint64Sqrt and returns
\* at once for a domain of 8 values.
findFactorsOlder(maxValue) ==
    IF maxValue < 3 THEN <<2, 2>>
    ELSE IF maxValue = MaxUInt THEN <<2 ^ HalfBits, 2 ^ HalfBits>>
    ELSE LET value == maxValue + 1
             sqrt  == uint64Sqrt(value)
         IN  IF value = 8 THEN <<sqrt, value \div sqrt>>
             ELSE FactorScanOlder(value, sqrt, <<0, 0, 0>>)

----------------------------------------------------------------------------
\* Seed scheduler and construction

\* SeedChain that never feeds an output back: every entry is the hash of
\* the seed it started from.
SeedChainNoFeed(currentSeed, n) == [i \in 1 .. n |-> splitmix64(currentSeed)]

RECURSIVE SeedChain(_, _)
SeedChain(currentSeed, n) ==
    IF n = 0 THEN <<>>
    ELSE <<splitmix64(currentSeed)>> \o SeedChain(splitmix64(currentSeed), n - 1)

\* NewNetwork without the check of rounds.
NewNetworkUnchecked(maxValue, seed, rounds, withEpochs) ==
    LET f == findFactors(maxValue)
    IN  << [ maxValue   |-> maxValue,
             rounds     |-> rounds,
             epochs     |-> withEpochs,
             seeds      |-> SeedChain(seed, rounds),
             leftRadix  |-> f[1],
             rightRadix |-> f[2] ],
           Nil >>

\* NewNetwork(maxValue, seed, rounds, opts...): <<network, error>>. The only
\* option is WithEpochs, so opts is whether it was passed.
NewNetworkResult(maxValue, seed, rounds, withEpochs) ==
    LET f == findFactors(maxValue)
    IN  IF rounds = 0
        THEN <<NilNetwork, ErrRoundsMustBeSet>>
        ELSE << [ maxValue   |-> maxValue,
                  rounds     |-> rounds,
                  epochs     |-> withEpochs,
                  seeds      |-> SeedChain(seed, rounds),
                  leftRadix  |-> f[1],
                  rightRadix |-> f[2] ],
                Nil >>

----------------------------------------------------------------------------
\* Round function and one pass of the cycle-walking loop

\* RoundStep leaving the epoch hash out of the odd rounds.
RoundStepKeyEvenOnly(n, x, y, round, key, inv) ==
    LET seed == n.seeds[round + 1]
    IN  IF round % 2 = 0
        THEN LET f == Hash[Xor(Xor(y, key), seed)] % n.leftRadix
             IN  IF inv
                 THEN <<Sub(Add(x, n.leftRadix), f) % n.leftRadix, y>>
                 ELSE <<Add(x, f) % n.leftRadix, y>>
        ELSE LET f == Hash[Xor(x, seed)] % n.rightRadix
             IN  IF inv
                 THEN <<x, Sub(Add(y, n.rightRadix), f) % n.rightRadix>>
                 ELSE <<x, Add(y, f) % n.rightRadix>>

\* RoundStep with the inverse direction subtracting f without first adding the
\* radix, so that the subtraction wraps around the word.
RoundStepWrapping(n, x, y, round, key, inv) ==
    LET seed == n.seeds[round + 1]
    IN  IF round % 2 = 0
        THEN LET f == Hash[Xor(Xor(y, key), seed)] % n.leftRadix
             IN  IF inv
                 THEN <<Sub(x, f) % n.leftRadix, y>>
                 ELSE <<Add(x, f) % n.leftRadix, y>>
        ELSE LET f == Hash[Xor(Xor(x, key), seed)] % n.rightRadix
             IN  IF inv
                 THEN <<x, Sub(y, f) % n.rightRadix>>
                 ELSE <<x, Add(y, f) % n.rightRadix>>

\* The body of the round loop for one round: <<a, b>> after it, from the
\* halves x (a) and y (b), the epoch hash key and the direction inv.
RoundStep(n, x, y, round, key, inv) ==
    LET seed == n.seeds[round + 1]
    IN  IF round % 2 = 0
        THEN LET f == Hash[Xor(Xor(y, key), seed)] % n.leftRadix
             IN  IF inv
                 THEN <<Sub(Add(x, n.leftRadix), f) % n.leftRadix, y>>
                 ELSE <<Add(x, f) % n.leftRadix, y>>
        ELSE LET f == Hash[Xor(Xor(x, key), seed)] % n.rightRadix
             IN  IF inv
                 THEN <<x, Sub(Add(y, n.rightRadix), f) % n.rightRadix>>
                 ELSE <<x, Add(y, f) % n.rightRadix>>

\* The input of the hash in a round: half ^ epochHash ^ seed.
KeyedInput(half, key, seed) == Xor(Xor(half, key), seed)

\* The input of the hash in a round of the older variant
\* (src/unnamed/part_000): seed := n.seeds[round] ^ epochHash, then half ^ seed.
KeyedInputOlder(half, key, seed) == Xor(half, Xor(seed, key))

\* The body of the round loop of the older variant for one round.
RoundStepOlder(n, x, y, round, key, inv) ==
    LET seed == Xor(n.seeds[round + 1], key)
    IN  IF round % 2 = 0
        THEN LET f == Hash[Xor(y, seed)] % n.leftRadix
             IN  IF inv
                 THEN <<Sub(Add(x, n.leftRadix), f) % n.leftRadix, y>>
                 ELSE <<Add(x, f) % n.leftRadix, y>>
        ELSE LET f == Hash[Xor(x, seed)] % n.rightRadix
             IN  IF inv
                 THEN <<x, Sub(Add(y, n.rightRadix), f) % n.rightRadix>>
                 ELSE <<x, Add(y, f) % n.rightRadix>>

\* The values round takes in the for loop of a pass, in order, from round on:
\* start = 0 and adjust = 1, or start = n.rounds - 1 and adjust = -1 when
\* inverting.
RECURSIVE RoundOrder(_, _, _)
RoundOrder(n, round, inv) ==
    IF ~(round >= 0 /\ round < n.rounds) THEN <<>>
    ELSE <<round>> \o RoundOrder(n, IF inv THEN round - 1 ELSE round + 1, inv)

\* for round := start; round >= 0 && round < n.rounds; round += adjust
RECURSIVE RoundLoop(_, _, _, _, _)
RoundLoop(n, ab, round, key, inv) ==
    IF ~(round >= 0 /\ round < n.rounds) THEN ab
    ELSE RoundLoop(n, RoundStep(n, ab[1], ab[2], round, key, inv),
                   IF inv THEN round - 1 ELSE round + 1, key, inv)

\* One iteration of the outer loop: all rounds, forward or in reverse.
RunPass(n, x, y, key, inv) ==
    RoundLoop(n, <<x, y>>, IF inv THEN n.rounds - 1 ELSE 0, key, inv)

\* index = a + b*n.leftRadix
Combine(n, ab) == Add(ab[1], Mul(ab[2], n.leftRadix))

----------------------------------------------------------------------------
\* The library as a state machine: construction, then calls of Map and
\* InvertMap, each running encode's outer loop one iteration per step.

\* No call in progress: encode's locals do not exist.
NoCall(p) ==
    [ pc |-> p, index |-> 0, invert |-> FALSE, a |-> 0, b |-> 0,
      epochStart |-> 0, epochHash |-> 0, passes |-> 0, result |-> 0, err |-> Nil ]

LibInit ==
    /\ network = [id \in NetIds |-> NilNetwork]
    /\ newErr = [id \in NetIds |-> Nil]
    /\ args = [id \in NetIds |-> Nil]
    /\ call = [id \in NetIds |-> NoCall("new")]

NewNetwork(id, maxValue, seed, rounds, withEpochs) ==
    /\ call[id].pc = "new"
    /\ LET r == NewNetworkResult(maxValue, seed, rounds, withEpochs)
       IN  /\ network' = [network EXCEPT ![id] = r[1]]
           /\ newErr' = [newErr EXCEPT ![id] = r[2]]
           /\ call' = [call EXCEPT ![id] = NoCall(IF r[2] = Nil THEN "idle" ELSE "failed")]
    /\ args' = [args EXCEPT ![id] = [ maxValue |-> maxValue, seed |-> seed,
                                       rounds |-> rounds, withEpochs |-> withEpochs ]]

\* EncodeEnter hashing the block origin whenever epochs are enabled, so that
\* the base block is keyed by splitmix64(0).
EncodeEnterAlwaysKeyed(n, i, inv) ==
    LET domainSize == Add(n.maxValue, 1)
        wrapped    == i > n.maxValue /\ n.epochs
        start      == IF wrapped THEN Sub(i, i % domainSize) ELSE 0
        key        == IF n.epochs THEN splitmix64(start) ELSE 0
        idx        == IF wrapped THEN i % domainSize ELSE i
        entered    == [ NoCall("loop") EXCEPT !.index = i, !.invert = inv ]
    IN  IF i > n.maxValue /\ ~n.epochs
        THEN [ entered EXCEPT !.pc = "done", !.result = 0,
                              !.err = ErrIndexGreatThanMaxValue ]
        ELSE IF n.maxValue = 0
        THEN [ entered EXCEPT !.pc = "done", !.result = 0, !.err = Nil,
                              !.epochStart = start, !.epochHash = key ]
        ELSE [ entered EXCEPT !.epochStart = start, !.epochHash = key,
                              !.a = idx % n.leftRadix,
                              !.b = idx \div n.leftRadix ]

\* EncodeEnter rejecting index >= maxValue instead of index > maxValue.
EncodeEnterInclusive(n, i, inv) ==
    LET domainSize == Add(n.maxValue, 1)
        wrapped    == i >= n.maxValue /\ n.epochs
        start      == IF wrapped THEN Sub(i, i % domainSize) ELSE 0
        key        == IF wrapped THEN splitmix64(start) ELSE 0
        idx        == IF wrapped THEN i % domainSize ELSE i
        entered    == [ NoCall("loop") EXCEPT !.index = i, !.invert = inv ]
    IN  IF i >= n.maxValue /\ ~n.epochs
        THEN [ entered EXCEPT !.pc = "done", !.result = 0,
                              !.err = ErrIndexGreatThanMaxValue ]
        ELSE IF n.maxValue = 0
        THEN [ entered EXCEPT !.pc = "done", !.result = 0, !.err = Nil,
                              !.epochStart = start, !.epochHash = key ]
        ELSE [ entered EXCEPT !.epochStart = start, !.epochHash = key,
                              !.a = idx % n.leftRadix,
                              !.b = idx \div n.leftRadix ]

\* encode from its entry to its outer loop (lines 70-89): the call after it.
EncodeEnter(n, i, inv) ==
    LET domainSize == Add(n.maxValue, 1)
        wrapped    == i > n.maxValue /\ n.epochs
        start      == IF wrapped THEN Sub(i, i % domainSize) ELSE 0
        key        == IF wrapped THEN splitmix64(start) ELSE 0
        idx        == IF wrapped THEN i % domainSize ELSE i
        entered    == [ NoCall("loop") EXCEPT !.index = i, !.invert = inv ]
    IN  IF i > n.maxValue /\ ~n.epochs
        THEN [ entered EXCEPT !.pc = "done", !.result = 0,
                              !.err = ErrIndexGreatThanMaxValue ]
        ELSE IF n.maxValue = 0
        THEN [ entered EXCEPT !.pc = "done", !.result = 0, !.err = Nil,
                              !.epochStart = start, !.epochHash = key ]
        ELSE [ entered EXCEPT !.epochStart = start, !.epochHash = key,
                              !.a = idx % n.leftRadix,
                              !.b = idx \div n.leftRadix ]

\* PassStep splitting the index the call entered with again instead of
\* walking on from the candidate: the halves are not kept between iterations.
PassStepRestart(n, c) ==
    LET ab == RunPass(n, c.a, c.b, c.epochHash, c.invert)
        i  == Combine(n, ab)
    IN  IF i <= n.maxValue
        THEN [ c EXCEPT !.a = ab[1], !.b = ab[2], !.passes = c.passes + 1,
                        !.pc = "done", !.result = Add(i, c.epochStart), !.err = Nil ]
        ELSE [ c EXCEPT !.passes = c.passes + 1 ]

\* PassStep accepting the candidate only when it is below maxValue.
PassStepBelow(n, c) ==
    LET ab == RunPass(n, c.a, c.b, c.epochHash, c.invert)
        i  == Combine(n, ab)
    IN  IF i < n.maxValue
        THEN [ c EXCEPT !.a = ab[1], !.b = ab[2], !.passes = c.passes + 1,
                        !.pc = "done", !.result = Add(i, c.epochStart), !.err = Nil ]
        ELSE [ c EXCEPT !.a = ab[1], !.b = ab[2], !.passes = c.passes + 1 ]

\* One iteration of encode's outer loop (lines 91-125): the call after it.
PassStep(n, c) ==
    LET ab == RunPass(n, c.a, c.b, c.epochHash, c.invert)
        i  == Combine(n, ab)
    IN  IF i <= n.maxValue
        THEN [ c EXCEPT !.a = ab[1], !.b = ab[2], !.passes = c.passes + 1,
                        !.pc = "done", !.result = Add(i, c.epochStart), !.err = Nil ]
        ELSE [ c EXCEPT !.a = ab[1], !.b = ab[2], !.passes = c.passes + 1 ]

encode(id, i, inv) ==
    /\ call[id].pc = "idle"
    /\ call' = [call EXCEPT ![id] = EncodeEnter(network[id], i, inv)]
    /\ UNCHANGED <<network, newErr, args>>

Map(id, i) == encode(id, i, FALSE)

InvertMap(id, i) == encode(id, i, TRUE)

\* Pass keying the round seeds in place: it stores seeds[round] ^ epochHash
\* back into the network.
PassKeyingInPlace(id) ==
    /\ call[id].pc = "loop"
    /\ call' = [call EXCEPT ![id] = PassStep(network[id], call[id])]
    /\ network' = [network EXCEPT ![id].seeds =
                       [r \in DOMAIN @ |-> Xor(@[r], call[id].epochHash)]]
    /\ UNCHANGED <<newErr, args>>

Pass(id) ==
    /\ call[id].pc = "loop"
    /\ call' = [call EXCEPT ![id] = PassStep(network[id], call[id])]
    /\ UNCHANGED <<network, newErr, args>>

\* encode has returned: its locals are gone and the caller has taken the
\* returned values; the network is ready for the next call.
Return(id) ==
    /\ call[id].pc = "done"
    /\ call' = [call EXCEPT ![id] = NoCall("idle")]
    /\ UNCHANGED <<network, newErr, args>>

Construct(id) ==
    /\ call[id].pc = "new"
    /\ \E maxValue \in UInt, seed \in 0 .. MaxSeed, rounds \in 0 .. MaxRounds,
          withEpochs \in BOOLEAN :
           NewNetwork(id, maxValue, seed, rounds, withEpochs)

----------------------------------------------------------------------------
\* The bit-mask variant (src/unnamed/part_001)

\* hashSeed(value, seed): xxh3.HashSeed of the bytes of value under seed. The
\* library hash is represented by a keyed mix of the word.
hashSeed(value, seed) == Hash[Xor(Hash[value], seed)]

RECURSIVE BmSeedChain(_, _, _)
BmSeedChain(currentSeed, seed, n) ==
    IF n = 0 THEN <<>>
    ELSE <<hashSeed(currentSeed, seed)>>
         \o BmSeedChain(hashSeed(currentSeed, seed), seed, n - 1)

BmNilNetwork ==
    [ rounds |-> 0, minAverageRounds |-> 0, maxValue |-> 0, roundCount |-> 0,
      epochs |-> FALSE, seeds |-> <<>>, bitWidth |-> 0, halfMask |-> 0,
      fullMask |-> 0, requiredOutputsWithinMax |-> 0 ]

\* bitWidth as NewNetwork computes it (lines 40-44).
BmBitWidth(maxValue) ==
    IF Len64(maxValue) % 2 = 1 THEN Len64(maxValue) + 1 ELSE Len64(maxValue)

\* requiredOutputsWithinMax (lines 66-80): the quotient of the double-word
\* product minAverageRounds * (maxValue + 1), rounded up.
BmRequired(minAverageRounds, maxValue, bitWidth) ==
    LET product == minAverageRounds * Add(maxValue, 1)
        hi      == product \div Word
        lo      == product % Word
        divisor == Sub(Shl(1, bitWidth), 1)
        quot    == IF bitWidth = WordBits THEN hi ELSE product \div divisor
        rem     == IF bitWidth = WordBits THEN lo ELSE product % divisor
    IN  IF rem > 0 THEN Add(quot, 1) ELSE quot

\* NewNetwork rejecting both options set with ErrRoundsMustBeSet.
BmNewNetworkOneError(maxValue, seed, rounds, minAverageRounds, withEpochs) ==
    IF (rounds = 0 /\ minAverageRounds = 0) \/ (rounds > 0 /\ minAverageRounds > 0)
    THEN <<BmNilNetwork, ErrRoundsMustBeSet>>
    ELSE LET bitWidth == BmBitWidth(maxValue)
             full     == maxValue = Sub(Shl(1, bitWidth), 1) /\ minAverageRounds > 0
             required == IF ~full /\ minAverageRounds > 0
                         THEN BmRequired(minAverageRounds, maxValue, bitWidth)
                         ELSE 0
             fixed    == IF full THEN minAverageRounds ELSE rounds
         IN  << [ rounds |-> fixed, minAverageRounds |-> minAverageRounds,
                  maxValue |-> maxValue, roundCount |-> 0, epochs |-> withEpochs,
                  seeds |-> BmSeedChain(seed, seed, fixed + required),
                  bitWidth |-> bitWidth,
                  halfMask |-> Sub(Shl(1, bitWidth \div 2), 1),
                  fullMask |-> Sub(Shl(1, bitWidth), 1),
                  requiredOutputsWithinMax |-> required ],
                Nil >>

\* NewNetwork(maxValue, seed, opts...) of the variant: <<network, error>>.
\* WithRounds(rounds), WithMinimumAverageRounds(minAverageRounds) and
\* WithEpochs are the options; an option not passed leaves its field zero.
BmNewNetworkResult(maxValue, seed, rounds, minAverageRounds, withEpochs) ==
    IF rounds = 0 /\ minAverageRounds = 0
    THEN <<BmNilNetwork, ErrRoundsMustBeSet>>
    ELSE IF rounds > 0 /\ minAverageRounds > 0
    THEN <<BmNilNetwork, ErrRoundsAndAverageRoundsSet>>
    ELSE LET bitWidth == BmBitWidth(maxValue)
             full     == maxValue = Sub(Shl(1, bitWidth), 1) /\ minAverageRounds > 0
             required == IF ~full /\ minAverageRounds > 0
                         THEN BmRequired(minAverageRounds, maxValue, bitWidth)
                         ELSE 0
             fixed    == IF full THEN minAverageRounds ELSE rounds
         IN  << [ rounds |-> fixed, minAverageRounds |-> minAverageRounds,
                  maxValue |-> maxValue, roundCount |-> 0, epochs |-> withEpochs,
                  seeds |-> BmSeedChain(seed, seed, fixed + required),
                  bitWidth |-> bitWidth,
                  halfMask |-> Sub(Shl(1, bitWidth \div 2), 1),
                  fullMask |-> Sub(Shl(1, bitWidth), 1),
                  requiredOutputsWithinMax |-> required ],
                Nil >>

BmNoCall(p) ==
    [ pc |-> p, arg |-> 0, index |-> 0, invert |-> FALSE, epochStart |-> 0,
      withinMaxCount |-> 0, left |-> 0, right |-> 0, loaded |-> 0,
      result |-> 0, err |-> Nil ]

\* encode of the variant from its entry to its loop (lines 121-140).
BmEncodeEnter(n, i, inv) ==
    LET domainSize == Add(n.maxValue, 1)
        wrapped    == i > n.maxValue /\ n.epochs
        start      == IF wrapped THEN Sub(i, i % domainSize) ELSE 0
        idx        == IF wrapped THEN i % domainSize ELSE i
        entered    == [ BmNoCall("loop") EXCEPT !.arg = i, !.index = idx,
                                                !.invert = inv ]
    IN  IF i > n.maxValue /\ ~n.epochs
        THEN [ entered EXCEPT !.pc = "done", !.index = i, !.result = 0,
                              !.err = ErrIndexGreatThanMaxValue ]
        ELSE IF n.maxValue = 0
        THEN [ entered EXCEPT !.pc = "done", !.result = 0, !.epochStart = start ]
        ELSE [ entered EXCEPT !.epochStart = start,
                              !.left = Shr(idx, n.bitWidth \div 2),
                              !.right = And(idx, n.halfMask) ]

\* seedId of an iteration that reads rc from n.roundCount (lines 143-156).
BmSeedId(n, c, rc) ==
    IF c.invert
    THEN IF n.requiredOutputsWithinMax > 0
         THEN Sub(n.requiredOutputsWithinMax, Add(c.withinMaxCount, 1))
         ELSE Sub(n.rounds, Add(rc % n.rounds, 1))
    ELSE IF n.requiredOutputsWithinMax > 0
         THEN c.withinMaxCount
         ELSE rc % n.rounds

\* An iteration up to the load of n.roundCount++ (lines 143-173): the round
\* under the seed chosen from rc, the value n.roundCount holds when read.
BmRound(n, c, rc) ==
    LET seedId == BmSeedId(n, c, rc)
        half   == n.bitWidth \div 2
    IN  IF seedId >= Len(n.seeds)
        THEN [ c EXCEPT !.pc = "panic" ]
        ELSE LET l == IF c.invert
                      THEN Xor(c.right,
                               And(hashSeed(Add(c.left, c.epochStart),
                                            n.seeds[seedId + 1]), n.halfMask))
                      ELSE c.right
                 r == IF c.invert
                      THEN c.left
                      ELSE Xor(c.left,
                               And(hashSeed(Add(c.right, c.epochStart),
                                            n.seeds[seedId + 1]), n.halfMask))
             IN  [ c EXCEPT !.pc = "count", !.left = l, !.right = r,
                            !.index = Or(Shl(l, half), r), !.loaded = rc ]

\* The rest of the iteration (lines 173-189), rc being the value of
\* n.roundCount after the store of n.roundCount++.
BmCount(n, c, rc) ==
    LET within   == IF c.index <= n.maxValue
                    THEN Add(c.withinMaxCount, 1) ELSE c.withinMaxCount
        finished == \/ n.rounds > 0 /\ rc % n.rounds = 0 /\ c.index <= n.maxValue
                    \/ /\ n.requiredOutputsWithinMax > 0
                       /\ within >= n.requiredOutputsWithinMax
    IN  IF finished
        THEN [ c EXCEPT !.pc = "done", !.withinMaxCount = within,
                        !.result = Add(c.index, c.epochStart), !.err = Nil ]
        ELSE [ c EXCEPT !.pc = "loop", !.withinMaxCount = within ]

\* The call c run alone to its return on a network whose roundCount is rc.
RECURSIVE BmRunAlone(_, _, _)
BmRunAlone(n, c, rc) ==
    IF c.pc # "loop" THEN c
    ELSE LET d == BmRound(n, c, rc)
         IN  IF d.pc = "panic" THEN d
             ELSE BmRunAlone(n, BmCount(n, d, Add(rc, 1)), Add(rc, 1))

BmInit ==
    /\ bmNetwork = BmNilNetwork
    /\ bmErr = Nil
    /\ bmArgs = Nil
    /\ bmCall = [p \in Callers |-> BmNoCall("new")]

BmNewNetwork(maxValue, seed, rounds, minAverageRounds, withEpochs) ==
    /\ \A p \in Callers : bmCall[p].pc = "new"
    /\ LET r == BmNewNetworkResult(maxValue, seed, rounds, minAverageRounds, withEpochs)
       IN  /\ bmNetwork' = r[1]
           /\ bmErr' = r[2]
           /\ bmCall' = [p \in Callers |->
                            BmNoCall(IF r[2] = Nil THEN "idle" ELSE "failed")]
    /\ bmArgs' = [ maxValue |-> maxValue, seed |-> seed, rounds |-> rounds,
                   minAverageRounds |-> minAverageRounds,
                   withEpochs |-> withEpochs ]

BmEncode(p, i, inv) ==
    /\ bmCall[p].pc = "idle"
    /\ bmCall' = [bmCall EXCEPT ![p] = BmEncodeEnter(bmNetwork, i, inv)]
    /\ UNCHANGED <<bmNetwork, bmErr, bmArgs>>

BmMap(p, i) == BmEncode(p, i, FALSE)

BmInvertMap(p, i) == BmEncode(p, i, TRUE)

\* Caller p runs an iteration up to the load of n.roundCount++.
BmIterate(p) ==
    /\ bmCall[p].pc = "loop"
    /\ bmNetwork.roundCount < MaxRoundCount
    /\ bmCall' = [bmCall EXCEPT ![p] = BmRound(bmNetwork, bmCall[p], bmNetwork.roundCount)]
    /\ UNCHANGED <<bmNetwork, bmErr, bmArgs>>

\* Caller p stores n.roundCount++ and finishes the iteration.
BmStore(p) ==
    /\ bmCall[p].pc = "count"
    /\ bmNetwork' = [bmNetwork EXCEPT !.roundCount = Add(bmCall[p].loaded, 1)]
    /\ bmCall' = [bmCall EXCEPT ![p] =
                     BmCount(bmNetwork, bmCall[p], Add(bmCall[p].loaded, 1))]
    /\ UNCHANGED <<bmErr, bmArgs>>

vars == <<lib, sweep, bitmask>>

SweepIdle ==
    /\ cursor = 0
    /\ stage = "first"
    /\ forwardMap = <<>>
    /\ firstPasses = 0

\* One network and one caller.
Init ==
    /\ LibInit
    /\ SweepIdle
    /\ firstInvert = FALSE
    /\ BmInit

Next ==
    \/ Construct(1) /\ UNCHANGED <<sweep, bitmask>>
    \/ (\E i \in UInt : Map(1, i)) /\ UNCHANGED <<sweep, bitmask>>
    \/ (\E i \in UInt : InvertMap(1, i)) /\ UNCHANGED <<sweep, bitmask>>
    \/ Pass(1) /\ UNCHANGED <<sweep, bitmask>>
    \/ Return(1) /\ UNCHANGED <<sweep, bitmask>>

Spec == Init /\ [][Next]_vars

----------------------------------------------------------------------------
\* Claims about construction, errors and the frame of a call.

\* C5: with epochs disabled, a call with index > maxValue returns 0 and
\* ErrIndexGreatThanMaxValue at once: it never enters the loop, runs no pass,
\* leaves the halves untouched and the network as NewNetwork returned it; a
\* call with index <= maxValue returns no error.
C5_OutOfRange ==
    (call[1].pc \in {"loop", "done"} /\ ~network[1].epochs) =>
        IF call[1].index > network[1].maxValue
        THEN /\ call[1].pc = "done"
             /\ call[1].result = 0
             /\ call[1].err = ErrIndexGreatThanMaxValue
             /\ call[1].passes = 0
             /\ call[1].a = 0 /\ call[1].b = 0
             /\ network[1] = NewNetworkResult(args[1].maxValue, args[1].seed,
                                              args[1].rounds, args[1].withEpochs)[1]
        ELSE call[1].err = Nil

\* Map or InvertMap has rejected an index above maxValue.
C5_Witness ==
    /\ call[1].pc = "done"
    /\ ~network[1].epochs
    /\ call[1].index > network[1].maxValue
    /\ call[1].err = ErrIndexGreatThanMaxValue

\* C6: NewNetwork with rounds = 0 returns ErrRoundsMustBeSet and no network,
\* whatever maxValue, seed and options; with rounds >= 1 it returns a network
\* and no error.
C6_RoundsMustBeSet ==
    call[1].pc # "new" =>
        IF args[1].rounds = 0
        THEN /\ call[1].pc = "failed"
             /\ newErr[1] = ErrRoundsMustBeSet
             /\ network[1] = NilNetwork
        ELSE /\ call[1].pc # "failed"
             /\ newErr[1] = Nil
             /\ network[1] # NilNetwork
             /\ network[1].rounds = args[1].rounds

\* NewNetwork was called with rounds = 0 and WithEpochs, and has failed.
C6_Witness ==
    /\ call[1].pc = "failed"
    /\ args[1].rounds = 0
    /\ args[1].withEpochs
    /\ args[1].maxValue > 0

\* C8: Map and InvertMap leave every field of the network unchanged: once
\* NewNetwork has returned, no step of a call changes the network.
C8_NetworkUnchanged ==
    [][call[1].pc # "new" => network' = network]_vars

\* A call has returned after more than one pass on a network with epochs.
C8_Witness ==
    /\ call[1].pc = "done"
    /\ call[1].passes > 1
    /\ call[1].epochHash # 0

----------------------------------------------------------------------------
\* The sweep: runTest's loop over settings.startIndex .. settings.endIndex,
\* here 0 .. maxValue, and every index of the word when epochs are enabled.

endIndex(n) == IF n.epochs THEN MaxUInt ELSE n.maxValue

SweepFirst ==
    /\ stage = "first"
    /\ call[1].pc = "idle"
    /\ cursor <= endIndex(network[1])
    /\ encode(1, cursor, firstInvert)
    /\ UNCHANGED <<sweep, bitmask>>

SweepTake ==
    /\ stage = "first"
    /\ call[1].pc = "done"
    /\ forwardMap' = Append(forwardMap, call[1].result)
    /\ firstPasses' = call[1].passes
    /\ stage' = "second"
    /\ Return(1)
    /\ UNCHANGED <<cursor, firstInvert, bitmask>>

SweepSecond ==
    /\ stage = "second"
    /\ encode(1, forwardMap[cursor + 1], ~firstInvert)
    /\ UNCHANGED <<sweep, bitmask>>

SweepNext ==
    /\ stage = "second"
    /\ call[1].pc = "done"
    /\ cursor' = cursor + 1
    /\ stage' = "first"
    /\ firstPasses' = 0
    /\ Return(1)
    /\ UNCHANGED <<firstInvert, forwardMap, bitmask>>

SweepInit ==
    /\ LibInit
    /\ SweepIdle
    /\ firstInvert \in BOOLEAN
    /\ BmInit

SweepStep ==
    \/ Construct(1) /\ UNCHANGED <<sweep, bitmask>>
    \/ SweepFirst
    \/ Pass(1) /\ UNCHANGED <<sweep, bitmask>>
    \/ SweepTake
    \/ SweepSecond
    \/ SweepNext

SpecSweep == SweepInit /\ [][SweepStep]_vars

----------------------------------------------------------------------------
\* Two networks built from the same arguments. The caller makes calls on
\* either network, one at a time, and may keep the values one network has
\* returned while it repeats that call on the other network.

\* NewNetwork for network 2 with the arguments network 1 was built from.
ConstructTwin ==
    /\ call[1].pc # "new"
    /\ call[2].pc = "new"
    /\ NewNetwork(2, args[1].maxValue, args[1].seed, args[1].rounds,
                  args[1].withEpochs)

\* The caller may call encode(i, inv) on network id: the other network is
\* idle, or has returned from encode(i, inv).
MayCall(id, i, inv) ==
    \A other \in NetIds \ {id} :
        \/ call[other].pc = "idle"
        \/ /\ call[other].pc = "done"
           /\ call[other].index = i
           /\ call[other].invert = inv

TwinNext ==
    \/ Construct(1) /\ UNCHANGED <<sweep, bitmask>>
    \/ ConstructTwin /\ UNCHANGED <<sweep, bitmask>>
    \/ \E id \in NetIds :
        \/ (\E i \in UInt : MayCall(id, i, FALSE) /\ Map(id, i))
               /\ UNCHANGED <<sweep, bitmask>>
        \/ (\E i \in UInt : MayCall(id, i, TRUE) /\ InvertMap(id, i))
               /\ UNCHANGED <<sweep, bitmask>>
        \/ Pass(id) /\ UNCHANGED <<sweep, bitmask>>
        \/ Return(id) /\ UNCHANGED <<sweep, bitmask>>

SpecTwin == Init /\ [][TwinNext]_vars

----------------------------------------------------------------------------
\* Two networks built from the same maxValue, seed and rounds, one with
\* WithEpochs and one without. The caller makes calls in the base range
\* [0, maxValue] on either network, as in the twin above.

\* NewNetwork for network 2 with the arguments network 1 was built from, but
\* the other choice of WithEpochs.
ConstructOther ==
    /\ call[1].pc # "new"
    /\ call[2].pc = "new"
    /\ NewNetwork(2, args[1].maxValue, args[1].seed, args[1].rounds,
                  ~args[1].withEpochs)

EpochsNext ==
    \/ Construct(1) /\ UNCHANGED <<sweep, bitmask>>
    \/ ConstructOther /\ UNCHANGED <<sweep, bitmask>>
    \/ \E id \in NetIds :
        \/ (\E i \in UInt : i <= network[id].maxValue /\ MayCall(id, i, FALSE)
                                 /\ Map(id, i))
               /\ UNCHANGED <<sweep, bitmask>>
        \/ (\E i \in UInt : i <= network[id].maxValue /\ MayCall(id, i, TRUE)
                                 /\ InvertMap(id, i))
               /\ UNCHANGED <<sweep, bitmask>>
        \/ Pass(id) /\ UNCHANGED <<sweep, bitmask>>
        \/ Return(id) /\ UNCHANGED <<sweep, bitmask>>

SpecEpochs == Init /\ [][EpochsNext]_vars

----------------------------------------------------------------------------
\* The bit-mask variant: its construction, and a network shared by two callers.

BmConstruct ==
    /\ bmCall[1].pc = "new"
    /\ \E maxValue \in UInt, seed \in 0 .. MaxSeed, rounds \in 0 .. MaxRounds,
          minAverageRounds \in 0 .. MaxRounds, withEpochs \in BOOLEAN :
           BmNewNetwork(maxValue, seed, rounds, minAverageRounds, withEpochs)

\* NewNetwork(maxValue, seed, WithRounds(rounds)) with rounds >= 2, with or
\* without WithEpochs.
BmConstructFixed ==
    /\ bmCall[1].pc = "new"
    /\ \E maxValue \in UInt, seed \in 0 .. MaxSeed, rounds \in 2 .. MaxRounds,
          withEpochs \in BOOLEAN :
           BmNewNetwork(maxValue, seed, rounds, 0, withEpochs)

BitMaskInit ==
    /\ LibInit
    /\ SweepIdle
    /\ firstInvert = FALSE
    /\ BmInit

\* Construction alone.
BitMaskNext == BmConstruct /\ UNCHANGED <<lib, sweep>>

SpecBitMask == BitMaskInit /\ [][BitMaskNext]_vars

\* No caller other than p is inside a call of the direction opposite to inv.
SameDirection(p, inv) ==
    \A q \in Callers \ {p} :
        bmCall[q].pc \in {"loop", "count", "done"} => bmCall[q].invert = inv

\* Two callers share the network without locking: each makes one call, both
\* of Map or both of InvertMap, and their iterations interleave.
SharedNext ==
    \/ BmConstructFixed /\ UNCHANGED <<lib, sweep>>
    \/ \E p \in Callers :
        \/ (\E i \in 0 .. MaxSharedIndex : BmMap(p, i) /\ SameDirection(p, FALSE))
               /\ UNCHANGED <<lib, sweep>>
        \/ (\E i \in 0 .. MaxSharedIndex : BmInvertMap(p, i) /\ SameDirection(p, TRUE))
               /\ UNCHANGED <<lib, sweep>>
        \/ BmIterate(p) /\ UNCHANGED <<lib, sweep>>
        \/ BmStore(p) /\ UNCHANGED <<lib, sweep>>

SpecShared == BitMaskInit /\ [][SharedNext]_vars

\* C10: two networks built by NewNetwork from the same arguments have the
\* same fields (seeds, leftRadix and rightRadix among them) whatever calls
\* were made on either, and return the same value and error from Map and
\* from InvertMap for the same index.
C10_Deterministic ==
    (call[1].pc \notin {"new", "failed"} /\ call[2].pc \notin {"new", "failed"}) =>
        /\ network[1] = network[2]
        /\ ( /\ call[1].pc = "done"
             /\ call[2].pc = "done"
             /\ call[1].index = call[2].index
             /\ call[1].invert = call[2].invert ) =>
                /\ call[1].result = call[2].result
                /\ call[1].err = call[2].err

\* Both networks have returned from the same call, which walked more than one
\* pass in an epoch above the base range.
C10_Witness ==
    /\ call[1].pc = "done"
    /\ call[2].pc = "done"
    /\ call[1].index = call[2].index
    /\ call[1].invert = call[2].invert
    /\ call[1].index > network[1].maxValue
    /\ call[1].passes > 1
    /\ call[1].result = call[2].result

----------------------------------------------------------------------------
\* Claims about the bit-mask variant.

\* C7 as stated: NewNetwork called with both WithRounds(r), r > 0, and
\* WithMinimumAverageRounds(m), m > 0, fails with ErrRoundsMustBeSet and
\* returns no network.
C7_BothSetIsRoundsMustBeSet ==
    (bmCall[1].pc # "new" /\ bmArgs.rounds > 0 /\ bmArgs.minAverageRounds > 0) =>
        /\ bmErr = ErrRoundsMustBeSet
        /\ bmNetwork = BmNilNetwork

\* C7 amended: NewNetwork called with both options fails with
\* ErrRoundsAndAverageRoundsSet, an error other than ErrRoundsMustBeSet, and
\* returns no network; called with neither it fails with ErrRoundsMustBeSet
\* and returns no network.
C7_BothSetIsItsOwnError ==
    bmCall[1].pc # "new" =>
        /\ (bmArgs.rounds > 0 /\ bmArgs.minAverageRounds > 0) =>
               /\ bmErr = ErrRoundsAndAverageRoundsSet
               /\ bmErr # ErrRoundsMustBeSet
               /\ bmNetwork = BmNilNetwork
               /\ bmCall[1].pc = "failed"
        /\ (bmArgs.rounds = 0 /\ bmArgs.minAverageRounds = 0) =>
               /\ bmErr = ErrRoundsMustBeSet
               /\ bmNetwork = BmNilNetwork
               /\ bmCall[1].pc = "failed"

\* NewNetwork was called with both options and has failed.
C7_Witness ==
    /\ bmCall[1].pc = "failed"
    /\ bmArgs.rounds > 0
    /\ bmArgs.minAverageRounds > 0

\* The value and error caller p's call returns when it runs alone on the
\* network as constructed.
AloneReturn(p) ==
    LET n == [bmNetwork EXCEPT !.roundCount = 0]
        c == BmRunAlone(n, BmEncodeEnter(n, bmCall[p].arg, bmCall[p].invert), 0)
    IN  <<c.result, c.err>>

\* C9: with a fixed round count >= 2, each of two concurrent calls of Map (or
\* of InvertMap) on the shared network returns the value it returns when run
\* alone on that network.
C9_SharedIsSafe ==
    \A p \in Callers :
        bmCall[p].pc = "done" =>
            <<bmCall[p].result, bmCall[p].err>> = AloneReturn(p)

----------------------------------------------------------------------------
\* Claims about the permutation, checked on the sweep.

\* The indices of forwardMap that lie in the base range [0, maxValue].
BaseSwept == { k \in 1 .. Len(forwardMap) : k - 1 <= network[1].maxValue }

\* C1: Map restricted to [0, maxValue] is a bijection onto [0, maxValue]: the
\* values a sweep of Map has returned so far lie in [0, maxValue] and are
\* pairwise different, once the sweep has covered [0, maxValue] every value
\* of [0, maxValue] has been returned, and Map(0) = 0 when maxValue = 0.
C1_MapIsBijection ==
    (call[1].pc \notin {"new", "failed"} /\ ~firstInvert) =>
        /\ \A k \in BaseSwept : forwardMap[k] \in 0 .. network[1].maxValue
        /\ \A k, l \in BaseSwept : k # l => forwardMap[k] # forwardMap[l]
        /\ Len(forwardMap) > network[1].maxValue =>
               { forwardMap[k] : k \in BaseSwept } = 0 .. network[1].maxValue
        /\ (network[1].maxValue = 0 /\ Len(forwardMap) > 0) => forwardMap[1] = 0

\* A sweep of Map has covered a base range of at least five values, split
\* into radices whose product exceeds the domain, and moved some of them.
C1_Witness ==
    /\ call[1].pc \notin {"new", "failed"}
    /\ ~firstInvert
    /\ network[1].maxValue >= 4
    /\ network[1].leftRadix * network[1].rightRadix > network[1].maxValue + 1
    /\ Len(forwardMap) > network[1].maxValue
    /\ \E k \in BaseSwept : forwardMap[k] # k - 1

\* C2: for every index in [0, maxValue], InvertMap(Map(index)) = index and
\* Map(InvertMap(index)) = index: the second call of the sweep, made on the
\* value the first call returned for cursor, returns cursor and no error.
C2_RoundTrip ==
    (stage = "second" /\ call[1].pc = "done" /\ cursor <= network[1].maxValue) =>
        /\ call[1].err = Nil
        /\ call[1].result = cursor

\* A round trip with an odd round count in which both directions needed more
\* than one cycle-walking pass.
C2_Witness ==
    /\ stage = "second"
    /\ call[1].pc = "done"
    /\ cursor <= network[1].maxValue
    /\ network[1].rounds % 2 = 1
    /\ firstPasses > 1
    /\ call[1].passes > 1
    /\ call[1].result = cursor

\* C3: with epochs enabled, for every maxValue and every index of the word,
\* InvertMap(Map(index)) = index and Map(InvertMap(index)) = index.
C3_EpochRoundTrip ==
    (stage = "second" /\ call[1].pc = "done" /\ network[1].epochs) =>
        /\ call[1].err = Nil
        /\ call[1].result = cursor

\* C4: with epochs enabled, Map(index) and InvertMap(index) lie in the block
\* of index, [blockOrigin, blockOrigin + maxValue], where
\* blockOrigin = index - (index mod (maxValue + 1)).
C4_EpochBlock ==
    (stage = "first" /\ call[1].pc = "done" /\ network[1].epochs) =>
        LET domainSize  == network[1].maxValue + 1
            blockOrigin == call[1].index - (call[1].index % domainSize)
        IN  /\ call[1].err = Nil
            /\ call[1].result >= blockOrigin
            /\ call[1].result <= blockOrigin + network[1].maxValue

----------------------------------------------------------------------------
\* Claims about the cycle-walking loop.

\* The passes the superset allows: the values of the superset outside
\* [0, maxValue], and one.
MaxPasses(n) == n.leftRadix * n.rightRadix - (n.maxValue + 1) + 1

\* C11: for maxValue >= 1 the outer loop of encode ends, in both directions,
\* within leftRadix*rightRadix - (maxValue+1) + 1 passes: a call still in the
\* loop has run fewer passes than that, and a call that has returned without
\* error has run at most that many, its candidate being <= maxValue.
C11_WalkEnds ==
    (call[1].pc \in {"loop", "done"} /\ network[1].maxValue >= 1
                                     /\ call[1].err = Nil) =>
        /\ call[1].a < network[1].leftRadix
        /\ call[1].b < network[1].rightRadix
        /\ call[1].pc = "loop" => call[1].passes < MaxPasses(network[1])
        /\ call[1].pc = "done" =>
               /\ call[1].passes >= 1
               /\ call[1].passes <= MaxPasses(network[1])
               /\ call[1].a + call[1].b * network[1].leftRadix <= network[1].maxValue

\* An inverse call has returned after more than two passes.
C11_Witness ==
    /\ call[1].pc = "done"
    /\ call[1].invert
    /\ network[1].maxValue >= 1
    /\ call[1].passes > 2
    /\ call[1].passes <= MaxPasses(network[1])

----------------------------------------------------------------------------
\* Claims about the domain splitter.

\* C12: for every maxValue NewNetwork is called with, the pair findFactors
\* returns (that of src/feistel.go, which the network keeps, and that of the
\* older variant) has both radices >= 1 and a product, taken in the
\* integers, of at least maxValue + 1; it is never <<0, 0>>.
C12_RadixPair ==
    call[1].pc # "new" =>
        LET N == args[1].maxValue + 1
            f == findFactors(args[1].maxValue)
            g == findFactorsOlder(args[1].maxValue)
        IN  /\ f[1] >= 1 /\ f[2] >= 1 /\ f[1] * f[2] >= N
            /\ g[1] >= 1 /\ g[2] >= 1 /\ g[1] * g[2] >= N
            /\ call[1].pc # "failed" =>
                   /\ network[1].leftRadix = f[1]
                   /\ network[1].rightRadix = f[2]
                   /\ network[1].leftRadix * network[1].rightRadix >= N

\* A network was built for a domain of 8 values, which no scan from the
\* square root rounded down covers, with a product above the domain.
C12_Witness ==
    /\ call[1].pc = "idle"
    /\ args[1].maxValue = 7
    /\ network[1].leftRadix * network[1].rightRadix > 8
    /\ findFactorsOlder(7) = <<2, 4>>

\* C13 as stated: leftRadix <= rightRadix in every network NewNetwork builds.
C13_LeftIsSmaller ==
    call[1].pc \notin {"new", "failed"} =>
        network[1].leftRadix <= network[1].rightRadix

\* The domain sizes k * (k + 1), k >= 2: 6, 12, 20, ...
Pronic(N) == \E k \in 2 .. N : k * (k + 1) = N

\* C13 as amended: leftRadix <= rightRadix in every network NewNetwork
\* builds, except for the domain sizes N = k * (k + 1) with k >= 2, where
\* findFactors returns (k + 1, k): leftRadix = rightRadix + 1.
C13_LeftIsSmallerButPronic ==
    call[1].pc \notin {"new", "failed"} =>
        LET N == network[1].maxValue + 1
        IN  IF Pronic(N)
            THEN /\ network[1].leftRadix = network[1].rightRadix + 1
                 /\ network[1].leftRadix * network[1].rightRadix = N
            ELSE network[1].leftRadix <= network[1].rightRadix

\* A network was built for a domain of 12 values, split as 4 x 3.
C13_Witness ==
    /\ call[1].pc = "idle"
    /\ network[1].maxValue = 11
    /\ network[1].leftRadix = 4
    /\ network[1].rightRadix = 3

\* C14: the scan of findFactors starts at the ceiling of the square root of
\* N = maxValue + 1: for the N that NewNetwork passes to it, uint64CeilSqrt
\* returns the smallest x with x * x >= N.
C14_CeilSqrt ==
    (call[1].pc # "new" /\ args[1].maxValue >= 3 /\ args[1].maxValue < MaxUInt) =>
        LET N == args[1].maxValue + 1
            s == uint64CeilSqrt(N)
        IN  /\ s * s >= N
            /\ (s - 1) * (s - 1) < N

\* The smallest x with x * x >= N.
CeilSqrt(N) == CHOOSE x \in 1 .. N : x * x >= N /\ (x - 1) * (x - 1) < N

\* The values of current the scan of findFactors tests for N unless it
\* returns before: from s = uint64CeilSqrt(N) downward while current > 1 and
\* 2 * current > N div current; and ceil(sqrt(N)) with them, which s falls
\* short of for some N.
Scanned(N) ==
    LET s == uint64CeilSqrt(N)
    IN  { c \in 1 .. s : \A d \in c .. s : d > 1 /\ 2 * d > N \div d }
            \cup {CeilSqrt(N)}

\* The values the scan reaches: those scanned with no divisor of N above them.
Reached(N) ==
    { c \in Scanned(N) : \A d \in Scanned(N) : d > c => N % d # 0 }

\* The smallest other with other * c >= N, and its excess.
CeilDiv(N, c) == CHOOSE o \in 1 .. N : o * c >= N /\ (o - 1) * c < N

Excess(N, c) == CeilDiv(N, c) * c - N

\* C15: for N = maxValue + 1 >= 4 findFactors returns (current, N / current)
\* for the largest scanned current that divides N, with product N; when no
\* scanned current divides N it returns a scanned current and
\* other = ceil(N / current) whose excess other * current - N is the least
\* among the scanned values.
C15_ScanResult ==
    (call[1].pc \notin {"new", "failed"} /\ network[1].maxValue >= 3
                                         /\ network[1].maxValue < MaxUInt) =>
        LET N       == network[1].maxValue + 1
            current == network[1].leftRadix
            other   == network[1].rightRadix
            exact   == { c \in Reached(N) : N % c = 0 }
        IN  /\ current \in Reached(N)
            /\ current <= uint64CeilSqrt(N)
            /\ IF exact # {}
               THEN /\ current \in exact
                    /\ \A c \in Scanned(N) : N % c = 0 => c <= current
                    /\ other = N \div current
                    /\ other * current = N
               ELSE /\ other = CeilDiv(N, current)
                    /\ \A c \in Scanned(N) :
                           other * current - N <= Excess(N, c)

\* A network was built for a domain of 7 values: the scan tested 3, with
\* excess 2, and then 2, with excess 1, and returned 2 x 4.
C15_Witness ==
    /\ call[1].pc = "idle"
    /\ network[1].maxValue = 6
    /\ Scanned(7) = {2, 3}
    /\ Reached(7) = {2, 3}
    /\ Excess(7, 3) = 2
    /\ network[1].leftRadix = 2
    /\ network[1].rightRadix = 4

----------------------------------------------------------------------------
\* Claims about the seed scheduler and the round function.

\* C16: a network built with rounds = r >= 1 keeps exactly r sub-seeds,
\* seeds[0] = splitmix64(seed) and seeds[i] = splitmix64(seeds[i-1]), and the
\* rounds of a pass, 0 .. r-1 when mapping and r-1 .. 0 when inverting, are
\* all indices of seeds. (Sequences are indexed from 1: seeds[i] of the
\* source is seeds[i + 1] here.)
C16_SeedSchedule ==
    call[1].pc \notin {"new", "failed"} =>
        LET n == network[1]
            r == args[1].rounds
        IN  /\ r >= 1
            /\ Len(n.seeds) = r
            /\ n.seeds[1] = splitmix64(args[1].seed)
            /\ \A i \in 2 .. r : n.seeds[i] = splitmix64(n.seeds[i - 1])
            /\ call[1].pc \in {"loop", "done"} =>
                   LET order == RoundOrder(n, IF call[1].invert THEN n.rounds - 1 ELSE 0,
                                           call[1].invert)
                   IN  /\ Len(order) = r
                       /\ \A k \in 1 .. r :
                              /\ order[k] = (IF call[1].invert THEN r - k ELSE k - 1)
                              /\ order[k] + 1 \in DOMAIN n.seeds

\* An inverse call has run a pass on a network of three rounds built from a
\* nonzero seed, whose three sub-seeds differ.
C16_Witness ==
    /\ call[1].pc = "done"
    /\ call[1].invert
    /\ call[1].passes >= 1
    /\ args[1].rounds = 3
    /\ args[1].seed = 1
    /\ network[1].seeds[1] # network[1].seeds[2]
    /\ network[1].seeds[2] # network[1].seeds[3]

\* C17 as stated: the two keyings differ: for the networks NewNetwork
\* builds there are, among the values of the word, a half value, a round
\* seed and an epoch key for which half ^ epochHash ^ seed of src/feistel.go
\* and half ^ (seed ^ epochHash) of the older variant are different inputs
\* of the hash.
C17_KeyingDiffers ==
    call[1].pc # "new" =>
        \E half \in UInt, seed \in UInt, key \in UInt :
            KeyedInput(half, key, seed) # KeyedInputOlder(half, key, seed)

\* C17 as amended: the two keyings are the same function: in every round of
\* every call, with the halves, the sub-seed and the epoch hash the call
\* holds, both variants feed the same input to the hash and the round of
\* the older variant leaves the same halves as the round of src/feistel.go.
C17_KeyingAgrees ==
    call[1].pc \in {"loop", "done"} =>
        \A round \in 0 .. network[1].rounds - 1 :
            LET seed == network[1].seeds[round + 1]
                c    == call[1]
            IN  /\ KeyedInput(c.a, c.epochHash, seed)
                       = KeyedInputOlder(c.a, c.epochHash, seed)
                /\ KeyedInput(c.b, c.epochHash, seed)
                       = KeyedInputOlder(c.b, c.epochHash, seed)
                /\ RoundStep(network[1], c.a, c.b, round, c.epochHash, c.invert)
                       = RoundStepOlder(network[1], c.a, c.b, round, c.epochHash,
                                        c.invert)

\* A call in an epoch above the base range, keyed by a nonzero epoch hash,
\* walks on after its first pass over two rounds or more, and the epoch hash
\* changes the input of the hash.
C17_Witness ==
    /\ call[1].pc = "loop"
    /\ call[1].passes >= 1
    /\ call[1].epochHash # 0
    /\ network[1].rounds >= 2
    /\ call[1].a # 0
    /\ KeyedInput(call[1].a, call[1].epochHash, network[1].seeds[2])
           # KeyedInput(call[1].a, 0, network[1].seeds[2])

----------------------------------------------------------------------------
\* Claims about epochs and the base range.

\* C18: for an index in [0, maxValue] a network built with WithEpochs runs
\* encode with epochHash = 0 and epochStart = 0, and its Map and InvertMap
\* return the value and error that the network built from the same
\* maxValue, seed and rounds without WithEpochs returns.
C18_EpochsKeepBase ==
    /\ \A id \in NetIds :
           (call[id].pc \in {"loop", "done"} /\ network[id].epochs
                /\ call[id].index <= network[id].maxValue) =>
               /\ call[id].epochHash = 0
               /\ call[id].epochStart = 0
    /\ ( /\ call[1].pc = "done"
         /\ call[2].pc = "done"
         /\ call[1].index = call[2].index
         /\ call[1].invert = call[2].invert ) =>
            /\ call[1].result = call[2].result
            /\ call[1].err = call[2].err
            /\ call[1].passes = call[2].passes

\* The network with epochs and the network without have returned from the
\* same inverse call in the base range, which walked more than one pass and
\* moved the index.
C18_Witness ==
    /\ call[1].pc = "done"
    /\ call[2].pc = "done"
    /\ network[1].epochs # network[2].epochs
    /\ call[1].index = call[2].index
    /\ call[1].invert /\ call[2].invert
    /\ call[1].index <= network[1].maxValue
    /\ call[1].passes > 1
    /\ call[1].result # call[1].index
    /\ call[1].result = call[2].result

====
